---- MODULE Spec2Model ----
(***************************************************************************)
(* Model of src/client/DeviceExtension.js: the DeviceExtension viewer      *)
(* extension (toolbar group/button, lazily created panel) and the          *)
(* NewDevicePanel (selection observer, async submit handler).              *)
(*                                                                         *)
(* The host viewer is the environment: it owns the selection, the toolbar, *)
(* the scene (instance tree, fragment list), the DOM and the network.      *)
(* JavaScript runs one handler at a time, so every action below is one     *)
(* handler (or one continuation of the async submit handler between two    *)
(* awaits) run to its end.                                                 *)
(***************************************************************************)
EXTENDS Integers, Sequences, FiniteSets, TLC

(* ------------------------------ bounds -------------------------------- *)
\* runs of the submit handler started in one behaviour
MaxSubmits == 2
\* counted calls of onToolbarCreated() in one behaviour of SpecToolbar
MaxToolbarCalls == 2
\* counted clicks on the toolbar button in one behaviour of SpecClicks
MaxToolbarClicks == 3

(* ------------------------- program constants -------------------------- *)
GroupId == "device-extension-group"
ButtonId == "add-device-button"
PanelId == "new-device-panel"
DefaultUrl == "/api/devices?provider=synthetic&project=unused"
SuccessMsg == "New device has been successfully added."
FailureMsg == "Could not add new device. See console for more details."
LoadedLine == "DeviceExtension loaded."
UnloadedLine == "DeviceExtension unloaded."
\* the <option> values of the deviceModelId <select>
ModelOptions == {"dm1", "dm2", "dm3"}

(* ---------------------- environment: inputs --------------------------- *)
\* object identifiers the user can select in the viewer
DbIds == {1, 2}
\* the selections the user makes: nothing, one object, or both objects
Selections == {<<>>, <<1>>, <<2>>, <<2, 1>>}
\* the form values the user leaves in the three fields
FormInputs ==
    { [deviceModelId |-> "dm1", deviceId |-> "", deviceName |-> ""],
      [deviceModelId |-> "dm3", deviceId |-> "d-9", deviceName |-> "pump"] }
\* the form as the panel's HTML creates it: first option, empty inputs
InitialForm == [deviceModelId |-> "dm1", deviceId |-> "", deviceName |-> ""]
\* diagnostic texts the environment produces
BodyText == "500: gateway not found"
NetworkError == "TypeError: Failed to fetch"
NullTreeError == "TypeError: Cannot read property 'enumNodeFragments' of null"
UndefinedNodeError == "TypeError: node is undefined"

(* ---------------------- environment: the scene ------------------------ *)
\* instance tree: node 1 owns fragments 1 and 2; node 2 is a group whose
\* child node 3 owns fragment 3
NodeChildren(n) == IF n = 2 THEN {3} ELSE {}
NodeFragments(n) == IF n = 1 THEN {1, 2} ELSE IF n = 3 THEN {3} ELSE {}
\* fragment list: world bounds of each fragment
FragWorldBounds(f) ==
    CASE f = 1 -> [empty |-> FALSE, min |-> <<0, 0, 0>>, max |-> <<2, 2, 2>>]
      [] f = 2 -> [empty |-> FALSE, min |-> <<4, 0, 2>>, max |-> <<6, 4, 4>>]
      [] OTHER -> [empty |-> FALSE, min |-> <<-2, -6, 0>>, max |-> <<0, -2, 2>>]

VARIABLES
    toolbar,        \* viewer.toolbar: sequence of control groups
    _group,         \* this._group of the extension
    _button,        \* this._button of the extension
    _panel,         \* this._panel of the extension
    url,            \* this.options.url
    visible,        \* the panel's visibility
    disabled,       \* the 'disabled' attribute of #submitBtn
    selListeners,   \* SELECTION_CHANGED_EVENT listeners the panel registered
    clickListeners, \* click listeners registered on #submitBtn
    form,           \* values of #deviceModelId, #deviceId, #deviceName
    selection,      \* viewer.getSelection()
    treeLoaded,     \* whether viewer.model.getInstanceTree() is non-null
    runs,           \* the runs of onSubmitButtonClick, in click order
    console,        \* the distinct lines written to the developer console
    ret,            \* value returned by the last load()/unload()
    createUICalls,  \* calls of _createUI() counted so far (SpecToolbar)
    toolbarClicks   \* clicks on the toolbar button counted so far (SpecClicks)

vars ==
    <<toolbar, _group, _button, _panel, url, visible, disabled, selListeners,
      clickListeners, form, selection, treeLoaded, runs, console,
      ret, createUICalls, toolbarClicks>>

(* ------------------- THREE.Box3 and the bounding box ------------------- *)
\* a JavaScript number: an integer of the scene, or NaN
Num(v) == [nan |-> FALSE, v |-> v]
NaN == [nan |-> TRUE, v |-> 0]

\* new THREE.Box3(): the empty box (min = +Infinity, max = -Infinity)
EmptyBox3 == [empty |-> TRUE, min |-> <<0, 0, 0>>, max |-> <<0, 0, 0>>]

Min2(a, b) == IF a <= b THEN a ELSE b
Max2(a, b) == IF a >= b THEN a ELSE b

\* Box3.union replacing the box instead of growing it
Box3Union_Overwrite(a, b) == b

\* Box3.union: componentwise min of the mins and max of the maxes
Box3Union(a, b) ==
    IF a.empty THEN b
    ELSE IF b.empty THEN a
    ELSE [empty |-> FALSE,
          min |-> [k \in 1..3 |-> Min2(a.min[k], b.min[k])],
          max |-> [k \in 1..3 |-> Max2(a.max[k], b.max[k])]]

\* Box3.center: (min + max) * 0.5; NaN components for the empty box
Box3Center(b) ==
    IF b.empty THEN [x |-> NaN, y |-> NaN, z |-> NaN]
    ELSE [x |-> Num((b.min[1] + b.max[1]) \div 2),
          y |-> Num((b.min[2] + b.max[2]) \div 2),
          z |-> Num((b.min[3] + b.max[3]) \div 2)]

\* tree.enumNodeFragments(dbid, cb, true): the node's fragments and those of
\* all its descendants
RECURSIVE enumNodeFragments(_)
enumNodeFragments(n) ==
    NodeFragments(n) \cup UNION {enumNodeFragments(c) : c \in NodeChildren(n)}

\* the callback of lines 105-108 run over a set of fragments
RECURSIVE UnionOfFragments(_, _)
UnionOfFragments(frags, totalBounds) ==
    IF frags = {} THEN totalBounds
    ELSE LET fragId == CHOOSE f \in frags : TRUE
         IN UnionOfFragments(frags \ {fragId},
                             Box3Union(totalBounds, FragWorldBounds(fragId)))

\* lines 103-109 for one node
NodeCenter(dbid) ==
    Box3Center(UnionOfFragments(enumNodeFragments(dbid), EmptyBox3))

(* --------------------------- JSON.stringify ---------------------------- *)
\* a number is written as itself, NaN as null
JsonNumber(n) == IF n.nan THEN [null |-> TRUE, v |-> 0]
                 ELSE [null |-> FALSE, v |-> n.v]

\* JSON.stringify(device), as the object the text denotes
JsonStringify(device) ==
    [deviceModelId |-> device.deviceModelId,
     deviceId |-> device.deviceId,
     deviceName |-> device.deviceName,
     positon |-> [x |-> JsonNumber(device.positon.x),
                  y |-> JsonNumber(device.positon.y),
                  z |-> JsonNumber(device.positon.z)]]

(* ------------------------------ Init ----------------------------------- *)
Init ==
    /\ toolbar = <<>>
    /\ _group = "undefined"
    /\ _button = "undefined"
    /\ _panel = "null"
    /\ url = DefaultUrl
    /\ visible = FALSE
    /\ disabled = FALSE
    /\ selListeners = 0
    /\ clickListeners = 0
    /\ form = InitialForm
    /\ selection = <<>>
    /\ treeLoaded = FALSE
    /\ runs = <<>>
    /\ console = {}
    /\ ret = "none"
    /\ createUICalls = 0
    /\ toolbarClicks = 0

(* -------------------------- DeviceExtension ---------------------------- *)
\* load(): logs and returns true
load ==
    /\ console' = console \cup {[level |-> "log", text |-> LoadedLine]}
    /\ ret' = "true"
    /\ UNCHANGED <<toolbar, _group, _button, _panel, url, visible, disabled,
                   selListeners, clickListeners, form, selection, treeLoaded,
                   runs>>
    /\ UNCHANGED <<createUICalls, toolbarClicks>>

\* unload() undoing what the extension set up: the toolbar group is removed,
\* the panel hidden and its listeners dropped
unload_TearsDown ==
    /\ console' = console \cup {[level |-> "log", text |-> UnloadedLine]}
    /\ ret' = "true"
    /\ toolbar' = SelectSeq(toolbar, LAMBDA g : g.id # GroupId)
    /\ visible' = FALSE
    /\ selListeners' = 0
    /\ clickListeners' = 0
    /\ UNCHANGED <<_group, _button, _panel, url, disabled, form, selection,
                   treeLoaded, runs>>
    /\ UNCHANGED <<createUICalls, toolbarClicks>>

\* unload(): logs and returns true
unload ==
    /\ console' = console \cup {[level |-> "log", text |-> UnloadedLine]}
    /\ ret' = "true"
    /\ UNCHANGED <<toolbar, _group, _button, _panel, url, visible, disabled,
                   selListeners, clickListeners, form, selection, treeLoaded,
                   runs>>
    /\ UNCHANGED <<createUICalls, toolbarClicks>>

\* toolbar.getControl(id): whether the toolbar holds a control with that id
getControl(id) == \E i \in 1..Len(toolbar) : toolbar[i].id = id

\* _createUI() without the guard of line 34
_createUI_Unguarded ==
    Append(toolbar, [id |-> GroupId, controls |-> <<ButtonId>>])

\* _createUI(): the toolbar after the call; the group and its button are
\* added only when no group of that id is there yet
_createUI ==
    IF ~getControl(GroupId)
    THEN Append(toolbar, [id |-> GroupId, controls |-> <<ButtonId>>])
    ELSE toolbar

\* onToolbarCreated(): calls _createUI(), which also sets this._group and,
\* when it creates the button, this._button
createUIStep ==
    /\ toolbar' = _createUI
    /\ _group' = GroupId
    /\ _button' = IF ~getControl(GroupId) THEN ButtonId ELSE _button
    /\ UNCHANGED <<_panel, url, visible, disabled, selListeners,
                   clickListeners, form, selection, treeLoaded, runs, console,
                   ret>>

onToolbarCreated == createUIStep /\ UNCHANGED <<createUICalls, toolbarClicks>>

\* the same call, counted
onToolbarCreatedCounted ==
    /\ createUICalls < MaxToolbarCalls
    /\ createUIStep
    /\ createUICalls' = createUICalls + 1
    /\ UNCHANGED toolbarClicks

(* --------------------------- NewDevicePanel ---------------------------- *)
\* onViewerSelectionChanged() enabling the button for any non-empty selection
onViewerSelectionChanged_NonEmpty(dbids) ==
    IF Len(dbids) >= 1 THEN FALSE ELSE TRUE

\* onViewerSelectionChanged(): the 'disabled' attribute it leaves on
\* #submitBtn for the selection the viewer reports
onViewerSelectionChanged(dbids) == IF Len(dbids) = 1 THEN FALSE ELSE TRUE

\* the constructor without the call of line 81: the button stays as the
\* HTML creates it, without the 'disabled' attribute
buttonOnClick_NoInitialCheck ==
    /\ \E i \in 1..Len(toolbar) :
          \E j \in 1..Len(toolbar[i].controls) :
             toolbar[i].controls[j] = ButtonId
    /\ IF _panel = "null"
       THEN /\ _panel' = PanelId
            /\ form' = InitialForm
            /\ disabled' = FALSE
            /\ selListeners' = selListeners + 1
            /\ clickListeners' = clickListeners + 1
            /\ visible' = TRUE
       ELSE /\ visible' = ~visible
            /\ UNCHANGED <<_panel, form, disabled, selListeners,
                           clickListeners>>
    /\ UNCHANGED <<toolbar, _group, _button, url, selection, treeLoaded, runs,
                   console, ret, createUICalls, toolbarClicks>>

\* the constructor always leaving the button disabled, whatever is selected
buttonOnClick_DisabledOnConstruction ==
    /\ \E i \in 1..Len(toolbar) :
          \E j \in 1..Len(toolbar[i].controls) :
             toolbar[i].controls[j] = ButtonId
    /\ IF _panel = "null"
       THEN /\ _panel' = PanelId
            /\ form' = InitialForm
            /\ disabled' = TRUE
            /\ selListeners' = selListeners + 1
            /\ clickListeners' = clickListeners + 1
            /\ visible' = TRUE
       ELSE /\ visible' = ~visible
            /\ UNCHANGED <<_panel, form, disabled, selListeners,
                           clickListeners>>
    /\ UNCHANGED <<toolbar, _group, _button, url, selection, treeLoaded, runs,
                   console, ret, createUICalls, toolbarClicks>>

\* the click handler showing the panel on every click instead of toggling
buttonOnClickStep_AlwaysShows ==
    /\ \E i \in 1..Len(toolbar) :
          \E j \in 1..Len(toolbar[i].controls) :
             toolbar[i].controls[j] = ButtonId
    /\ IF _panel = "null"
       THEN /\ _panel' = PanelId
            /\ form' = InitialForm
            /\ disabled' = onViewerSelectionChanged(selection)
            /\ selListeners' = selListeners + 1
            /\ clickListeners' = clickListeners + 1
            /\ visible' = TRUE
       ELSE /\ visible' = TRUE
            /\ UNCHANGED <<_panel, form, disabled, selListeners,
                           clickListeners>>
    /\ UNCHANGED <<toolbar, _group, _button, url, selection, treeLoaded, runs,
                   console, ret>>

\* the click handler without the guard of line 41: a new panel, with its
\* listeners, on every click
buttonOnClickStep_NewPanelEachClick ==
    /\ \E i \in 1..Len(toolbar) :
          \E j \in 1..Len(toolbar[i].controls) :
             toolbar[i].controls[j] = ButtonId
    /\ _panel' = PanelId
    /\ form' = InitialForm
    /\ disabled' = onViewerSelectionChanged(selection)
    /\ selListeners' = selListeners + 1
    /\ clickListeners' = clickListeners + 1
    /\ visible' = TRUE
    /\ UNCHANGED <<toolbar, _group, _button, url, selection, treeLoaded, runs,
                   console, ret>>

\* the click handler of the toolbar button (lines 40-45): creates the panel
\* on the first click (constructor, lines 55-84), then toggles its visibility
buttonOnClickStep ==
    /\ \E i \in 1..Len(toolbar) :
          \E j \in 1..Len(toolbar[i].controls) :
             toolbar[i].controls[j] = ButtonId
    /\ IF _panel = "null"
       THEN /\ _panel' = PanelId
            /\ form' = InitialForm
            /\ disabled' = onViewerSelectionChanged(selection)
            /\ selListeners' = selListeners + 1
            /\ clickListeners' = clickListeners + 1
            /\ visible' = TRUE
       ELSE /\ visible' = ~visible
            /\ UNCHANGED <<_panel, form, disabled, selListeners,
                           clickListeners>>
    /\ UNCHANGED <<toolbar, _group, _button, url, selection, treeLoaded, runs,
                   console, ret>>

\* a click on the toolbar button
buttonOnClick == buttonOnClickStep /\ UNCHANGED <<createUICalls, toolbarClicks>>

\* the same click, counted
buttonOnClickCounted ==
    /\ toolbarClicks < MaxToolbarClicks
    /\ buttonOnClickStep
    /\ toolbarClicks' = toolbarClicks + 1
    /\ UNCHANGED createUICalls

\* the viewer changes its selection and fires SELECTION_CHANGED_EVENT; every
\* registered listener runs onViewerSelectionChanged()
selectionChanged ==
    \E dbids \in Selections :
       /\ dbids # selection
       /\ selection' = dbids
       /\ disabled' = IF selListeners > 0
                      THEN onViewerSelectionChanged(dbids)
                      ELSE disabled
       /\ UNCHANGED <<toolbar, _group, _button, _panel, url, visible,
                      selListeners, clickListeners, form, treeLoaded, runs,
                      console, ret>>
       /\ UNCHANGED <<createUICalls, toolbarClicks>>

\* the form edited while requests built from live references to the fields
\* are in flight: their bodies follow the edit
editForm_LiveBody ==
    \E f \in FormInputs :
       /\ _panel # "null" /\ visible
       /\ f # form
       /\ form' = f
       /\ runs' = [i \in 1..Len(runs) |->
                     IF runs[i].status = "awaitFetch"
                     THEN [runs[i] EXCEPT
                             !.posts[1].body.deviceModelId = f.deviceModelId,
                             !.posts[1].body.deviceId = f.deviceId,
                             !.posts[1].body.deviceName = f.deviceName]
                     ELSE runs[i]]
       /\ UNCHANGED <<toolbar, _group, _button, _panel, url, visible, disabled,
                      selListeners, clickListeners, selection, treeLoaded,
                      console, ret>>
       /\ UNCHANGED <<createUICalls, toolbarClicks>>

\* the user edits the fields of the visible panel
editForm ==
    \E f \in FormInputs :
       /\ _panel # "null" /\ visible
       /\ f # form
       /\ form' = f
       /\ UNCHANGED <<toolbar, _group, _button, _panel, url, visible, disabled,
                      selListeners, clickListeners, selection, treeLoaded,
                      runs, console, ret>>
       /\ UNCHANGED <<createUICalls, toolbarClicks>>

\* the viewer finishes loading the model's instance tree
instanceTreeLoaded ==
    /\ ~treeLoaded
    /\ treeLoaded' = TRUE
    /\ UNCHANGED <<toolbar, _group, _button, _panel, url, visible, disabled,
                   selListeners, clickListeners, form, selection, runs,
                   console, ret>>
    /\ UNCHANGED <<createUICalls, toolbarClicks>>

(* ------------------------ onSubmitButtonClick -------------------------- *)
\* the catch block rethrowing instead of reporting
catch_Rethrow(run, err) == [run EXCEPT !.status = "threw"]

\* the catch block showing the error itself to the user
catch_AlertsError(run, err) ==
    [run EXCEPT !.status = "returned", !.alerts = Append(@, err)]

\* the catch block sending the request again after a failed one
catch_Retries(run, err) ==
    IF run.posts = <<>>
    THEN [run EXCEPT !.status = "returned", !.alerts = Append(@, FailureMsg)]
    ELSE [run EXCEPT !.status = "awaitFetch",
                     !.alerts = Append(@, FailureMsg),
                     !.posts = Append(@, @[1])]

\* the catch block (lines 130-133) applied to a run that threw err: alert()
\* of the generic message, after which the handler returns normally
catch(run, err) ==
    [run EXCEPT !.status = "returned", !.alerts = Append(@, FailureMsg)]

\* line 132: console.error(err)
consoleError(err) == console \cup {[level |-> "error", text |-> err]}

\* lines 100-109: the center of the bounds of dbids[0], or the error thrown.
\* undefinedThrows: whether the host's enumNodeFragments(undefined, ...)
\* throws or enumerates nothing
selectionCenter(undefinedThrows) ==
    IF ~treeLoaded
    THEN [threw |-> TRUE, err |-> NullTreeError,
          center |-> Box3Center(EmptyBox3)]
    ELSE IF selection = <<>>
    THEN [threw |-> undefinedThrows, err |-> UndefinedNodeError,
          center |-> Box3Center(EmptyBox3)]
    ELSE [threw |-> FALSE, err |-> "",
          center |-> NodeCenter(selection[1])]

\* lines 112-124: the device record and the request handed to fetch
fetchRequest(center) ==
    [url |-> url,
     method |-> "post",
     contentType |-> "application/json",
     body |-> JsonStringify([deviceModelId |-> form.deviceModelId,
                             deviceId |-> form.deviceId,
                             deviceName |-> form.deviceName,
                             positon |-> center])]

\* a run of the handler as it starts: nothing sent or shown yet; sel and frm
\* record the selection and the form at the click
newRun ==
    [status |-> "running", outcome |-> "none", posts |-> <<>>,
     alerts |-> <<>>, sel |-> selection, frm |-> form]

\* the handler returning without a request while another one is in flight
submitStart_Dedup(undefinedThrows) ==
    LET c == selectionCenter(undefinedThrows)
    IN IF c.threw
       THEN catch([newRun EXCEPT !.outcome = "prepost"], c.err)
       ELSE IF \E i \in 1..Len(runs) : runs[i].status = "awaitFetch"
       THEN [newRun EXCEPT !.status = "returned"]
       ELSE [newRun EXCEPT !.status = "awaitFetch",
                           !.posts = <<fetchRequest(c.center)>>]

\* the handler with lines 100-109 outside the try block
submitStart_Uncaught(undefinedThrows) ==
    LET c == selectionCenter(undefinedThrows)
    IN IF c.threw
       THEN [newRun EXCEPT !.status = "threw", !.outcome = "prepost"]
       ELSE [newRun EXCEPT !.status = "awaitFetch",
                           !.posts = <<fetchRequest(c.center)>>]

\* lines 98-124: the run of the handler from the click to its first await
submitStart(undefinedThrows) ==
    LET c == selectionCenter(undefinedThrows)
    IN IF c.threw
       THEN catch([newRun EXCEPT !.outcome = "prepost"], c.err)
       ELSE [newRun EXCEPT !.status = "awaitFetch",
                           !.posts = <<fetchRequest(c.center)>>]

\* whether a click on #submitBtn is dispatched: the panel is shown and the
\* button does not carry the 'disabled' attribute
clickDispatched == _panel # "null" /\ visible /\ ~disabled

\* a click on #submitBtn whose handler disables the button while its
\* request is in flight
submitClick_DisablesButton ==
    \E undefinedThrows \in BOOLEAN :
       /\ clickDispatched
       /\ clickListeners > 0
       /\ Len(runs) + clickListeners <= MaxSubmits
       /\ runs' = runs \o [k \in 1..clickListeners |->
                             submitStart(undefinedThrows)]
       /\ console' = IF selectionCenter(undefinedThrows).threw
                     THEN consoleError(selectionCenter(undefinedThrows).err)
                     ELSE console
       /\ disabled' = TRUE
       /\ UNCHANGED <<toolbar, _group, _button, _panel, url, visible,
                      selListeners, clickListeners, form, selection,
                      treeLoaded, ret>>
       /\ UNCHANGED <<createUICalls, toolbarClicks>>

\* a click on #submitBtn: every registered click listener starts a run
submitClick ==
    \E undefinedThrows \in BOOLEAN :
       /\ clickDispatched
       /\ clickListeners > 0
       /\ Len(runs) + clickListeners <= MaxSubmits
       /\ runs' = runs \o [k \in 1..clickListeners |->
                             submitStart(undefinedThrows)]
       /\ console' = IF selectionCenter(undefinedThrows).threw
                     THEN consoleError(selectionCenter(undefinedThrows).err)
                     ELSE console
       /\ UNCHANGED <<toolbar, _group, _button, _panel, url, visible, disabled,
                      selListeners, clickListeners, form, selection,
                      treeLoaded, ret>>
       /\ UNCHANGED <<createUICalls, toolbarClicks>>

\* lines 125-129 for a response with resp.ok: the success alert
respOk(run) ==
    [run EXCEPT !.status = "returned", !.outcome = "ok",
                !.alerts = Append(@, SuccessMsg)]

\* lines 125-126 for a response without resp.ok: await resp.text()
respNotOk(run) == [run EXCEPT !.status = "awaitText", !.outcome = "notok"]

\* fetch resolves with a response; the handler resumes at line 125
fetchResolved ==
    \E i \in 1..Len(runs), ok \in BOOLEAN :
       /\ runs[i].status = "awaitFetch"
       /\ runs' = [runs EXCEPT ![i] = IF ok THEN respOk(@) ELSE respNotOk(@)]
       /\ UNCHANGED <<toolbar, _group, _button, _panel, url, visible, disabled,
                      selListeners, clickListeners, form, selection,
                      treeLoaded, console, ret>>
       /\ UNCHANGED <<createUICalls, toolbarClicks>>

\* fetch rejects (network failure); the handler resumes in the catch block
fetchRejected ==
    \E i \in 1..Len(runs) :
       /\ runs[i].status = "awaitFetch"
       /\ runs' = [runs EXCEPT ![i] = catch([@ EXCEPT !.outcome = "rejected"],
                                            NetworkError)]
       /\ console' = consoleError(NetworkError)
       /\ UNCHANGED <<toolbar, _group, _button, _panel, url, visible, disabled,
                      selListeners, clickListeners, form, selection,
                      treeLoaded, ret>>
       /\ UNCHANGED <<createUICalls, toolbarClicks>>

\* resp.text() resolves with the body of the response that arrived; line 126
\* throws it as an Error and the catch block runs
textSettled ==
    \E i \in 1..Len(runs) :
       /\ runs[i].status = "awaitText"
       /\ runs' = [runs EXCEPT ![i] = catch(@, BodyText)]
       /\ console' = consoleError(BodyText)
       /\ UNCHANGED <<toolbar, _group, _button, _panel, url, visible, disabled,
                      selListeners, clickListeners, form, selection,
                      treeLoaded, ret>>
       /\ UNCHANGED <<createUICalls, toolbarClicks>>

(* --------------------------- specification ----------------------------- *)
Next ==
    \/ load
    \/ unload
    \/ onToolbarCreated
    \/ buttonOnClick
    \/ selectionChanged
    \/ editForm
    \/ instanceTreeLoaded
    \/ submitClick
    \/ fetchResolved
    \/ fetchRejected
    \/ textSettled

Spec == Init /\ [][Next]_vars

\* the extension and its panel without submissions, with the calls of
\* onToolbarCreated() counted
NextToolbar ==
    \/ load
    \/ unload
    \/ onToolbarCreatedCounted
    \/ buttonOnClick
    \/ selectionChanged
    \/ editForm
    \/ instanceTreeLoaded

SpecToolbar == Init /\ [][NextToolbar]_vars

\* the extension and its panel with the clicks on the toolbar button
\* counted, up to the point where submits wait for the network
NextClicks ==
    \/ load
    \/ unload
    \/ onToolbarCreated
    \/ buttonOnClickCounted
    \/ selectionChanged
    \/ editForm
    \/ instanceTreeLoaded
    \/ submitClick

SpecClicks == Init /\ [][NextClicks]_vars

(* ------------------------------- claims -------------------------------- *)
\* number of control groups of the toolbar with the given id
RECURSIVE CountGroups(_, _)
CountGroups(tb, id) ==
    IF tb = <<>> THEN 0
    ELSE (IF Head(tb).id = id THEN 1 ELSE 0) + CountGroups(Tail(tb), id)

\* C1: once the panel exists, the submit control is enabled exactly when the
\* viewer's selection holds one identifier, in every reachable state (after
\* any selection changes, toolbar clicks, submit clicks and POST completions)
C1_EnabledIffOneSelected ==
    _panel # "null" => (~disabled <=> Len(selection) = 1)

\* C1 witness: the control is enabled for a single selection while the panel
\* has been hidden again and a submit has completed
C1_Witness ==
    /\ _panel # "null" /\ ~visible
    /\ Len(selection) = 1 /\ ~disabled
    /\ \E i \in 1..Len(runs) : runs[i].status = "returned"

\* C2: every run of the submit handler, hence every POST, started while the
\* viewer's selection held exactly one identifier
C2_SubmitOnlyWithOneSelected ==
    \A i \in 1..Len(runs) : Len(runs[i].sel) = 1

\* C2 witness: a run has started and issued its POST
C2_Witness ==
    \E i \in 1..Len(runs) :
       Len(runs[i].sel) = 1 /\ Len(runs[i].posts) = 1

\* C3: after one or more calls of onToolbarCreated() the toolbar holds exactly
\* one 'device-extension-group' group, with exactly one 'add-device-button'
C3_ToolbarCreationIdempotent ==
    createUICalls >= 1 =>
       /\ CountGroups(toolbar, GroupId) = 1
       /\ \A i \in 1..Len(toolbar) :
             toolbar[i].id = GroupId => toolbar[i].controls = <<ButtonId>>

\* C3 witness: onToolbarCreated() has been called twice
C3_Witness ==
    createUICalls >= 2 /\ CountGroups(toolbar, GroupId) = 1

\* the texts of errors, which belong in the console only
DiagnosticTexts ==
    {BodyText, NetworkError, NullTreeError, UndefinedNodeError}

\* C4: every run of the submit handler that has ended returned normally (no
\* error escaped) and showed exactly one notification, the success or the
\* generic failure message; a run still waiting for its POST has shown none
C4_OneNotificationPerSubmit ==
    \A i \in 1..Len(runs) :
       /\ runs[i].status \in {"awaitFetch", "awaitText", "returned"}
       /\ runs[i].status = "returned" =>
             /\ Len(runs[i].alerts) = 1
             /\ runs[i].alerts[1] \in {SuccessMsg, FailureMsg}
       /\ runs[i].status # "returned" => runs[i].alerts = <<>>

\* C4 witness: one submit ended with the success notification and another
\* with the failure notification
C4_Witness ==
    \E i, j \in 1..Len(runs) :
       /\ runs[i].status = "returned" /\ runs[i].alerts = <<SuccessMsg>>
       /\ runs[j].status = "returned" /\ runs[j].alerts = <<FailureMsg>>

\* the bounding-box centers of the scene's two objects, worked out by hand:
\* object 1 spans (0,0,0)-(6,4,4); object 2 spans (-2,-6,0)-(0,-2,2)
SceneCenter(dbid) ==
    IF dbid = 1
    THEN [x |-> [null |-> FALSE, v |-> 3], y |-> [null |-> FALSE, v |-> 2],
          z |-> [null |-> FALSE, v |-> 2]]
    ELSE [x |-> [null |-> FALSE, v |-> -1], y |-> [null |-> FALSE, v |-> -4],
          z |-> [null |-> FALSE, v |-> 1]]

\* the one POST a run must have issued for what was selected and entered at
\* its click
ExpectedPost(run) ==
    [url |-> DefaultUrl, method |-> "post", contentType |-> "application/json",
     body |-> [deviceModelId |-> run.frm.deviceModelId,
               deviceId |-> run.frm.deviceId,
               deviceName |-> run.frm.deviceName,
               positon |-> SceneCenter(run.sel[1])]]

\* C5: a submit whose POST got an ok response shows the success notification
\* once and no failure notification, and issued exactly one POST, carrying
\* the three form values and the selected object's center as of the click
C5_OkResponse ==
    \A i \in 1..Len(runs) :
       runs[i].outcome = "ok" =>
          /\ runs[i].alerts = <<SuccessMsg>>
          /\ Len(runs[i].sel) = 1
          /\ runs[i].posts = <<ExpectedPost(runs[i])>>

\* C5 witness: an ok response for a submit of edited form values with the
\* two-fragment object selected
C5_Witness ==
    \E i \in 1..Len(runs) :
       /\ runs[i].outcome = "ok"
       /\ runs[i].sel = <<1>>
       /\ runs[i].frm # InitialForm

\* C6: a submit whose POST got a non-ok response (once its body is read) or
\* was rejected shows the generic failure notification once and no success
\* notification; the error text is in the console and in no notification
C6_FailedResponse ==
    /\ \A i \in 1..Len(runs) :
          (runs[i].status = "returned"
             /\ runs[i].outcome \in {"notok", "rejected"}) =>
             /\ runs[i].alerts = <<FailureMsg>>
             /\ runs[i].outcome = "rejected" =>
                   [level |-> "error", text |-> NetworkError] \in console
             /\ runs[i].outcome = "notok" =>
                   [level |-> "error", text |-> BodyText] \in console
    /\ \A i \in 1..Len(runs) :
          \A k \in 1..Len(runs[i].alerts) :
             runs[i].alerts[k] \notin DiagnosticTexts

\* C6 witness: a non-ok response and a rejected request, both ended with the
\* same notification
C6_Witness ==
    \E i, j \in 1..Len(runs) :
       /\ runs[i].status = "returned" /\ runs[i].outcome = "notok"
       /\ runs[j].status = "returned" /\ runs[j].outcome = "rejected"
       /\ runs[i].alerts = runs[j].alerts

\* C7 as stated: every submit click issues its own POST, clicks with the same
\* selection and form values issue identical POSTs, and each ok answer gives
\* one success notification
C7_EveryClickPosts ==
    /\ \A i \in 1..Len(runs) : Len(runs[i].posts) = 1
    /\ \A i, j \in 1..Len(runs) :
          (runs[i].sel = runs[j].sel /\ runs[i].frm = runs[j].frm) =>
             runs[i].posts = runs[j].posts
    /\ \A i \in 1..Len(runs) :
          runs[i].outcome = "ok" => runs[i].alerts = <<SuccessMsg>>

\* C7 amended: every submit click whose bounding-box computation does not
\* throw issues its own POST, also while earlier POSTs are in flight; such
\* clicks with the same selection and form values issue identical POSTs, and
\* each ok answer gives one success notification
C7_EveryClickPostsUnlessBoundsThrow ==
    /\ \A i \in 1..Len(runs) :
          runs[i].outcome # "prepost" => Len(runs[i].posts) = 1
    /\ \A i, j \in 1..Len(runs) :
          (/\ runs[i].sel = runs[j].sel /\ runs[i].frm = runs[j].frm
           /\ runs[i].outcome # "prepost" /\ runs[j].outcome # "prepost") =>
             runs[i].posts = runs[j].posts
    /\ \A i \in 1..Len(runs) :
          runs[i].outcome = "ok" => runs[i].alerts = <<SuccessMsg>>

\* C7 witness: two clicks with the same selection and form values, the second
\* made and answered ok while the POST of the first is still in flight
C7_Witness ==
    /\ Len(runs) = 2
    /\ runs[1].status = "awaitFetch"
    /\ runs[2].outcome = "ok"
    /\ runs[1].sel = runs[2].sel /\ runs[1].frm = runs[2].frm
    /\ runs[1].posts = runs[2].posts /\ Len(runs[1].posts) = 1

\* a step in which the panel is constructed
PanelConstructed == _panel = "null" /\ _panel' # "null"

\* C8 as stated: right after the panel constructor the submit control is
\* disabled, whatever is selected
C8_DisabledOnConstruction ==
    [][PanelConstructed => disabled']_vars

\* C8 amended: right after the panel constructor the submit control is
\* disabled exactly when the selection does not hold one identifier
C8_ConstructionFollowsSelection ==
    [][PanelConstructed => (disabled' <=> Len(selection') # 1)]_vars

\* C8 witness: the panel as constructed while one object was selected
C8_Witness ==
    /\ _panel # "null" /\ visible /\ form = InitialForm
    /\ selection = <<2>> /\ ~disabled
    /\ createUICalls = 1

\* C9: load() and unload() return true and leave the toolbar, the extension's
\* group, button and panel, the panel's visibility, listeners and submit
\* control, the URL, and everything else but the console, unchanged
C9_LifecycleChangesNothing ==
    [][(load \/ unload) =>
          /\ ret' = "true"
          /\ UNCHANGED <<toolbar, _group, _button, _panel, url, visible,
                         disabled, selListeners, clickListeners, form,
                         selection, treeLoaded, runs>>]_vars

\* C9 witness: after load() and unload() the button and the shown panel are
\* in place with their listeners, and a submit has gone through
C9_Witness ==
    /\ ret = "true"
    /\ [level |-> "log", text |-> LoadedLine] \in console
    /\ [level |-> "log", text |-> UnloadedLine] \in console
    /\ getControl(GroupId) /\ _panel # "null" /\ visible
    /\ selListeners = 1 /\ clickListeners = 1
    /\ \E i \in 1..Len(runs) : runs[i].outcome = "ok"

\* C10: a submit whose bounding-box computation throws issues no POST, shows
\* the generic failure notification once and no success notification, and
\* its handler returns normally
C10_FailureBeforeRequest ==
    \A i \in 1..Len(runs) :
       runs[i].outcome = "prepost" =>
          /\ runs[i].posts = <<>>
          /\ runs[i].alerts = <<FailureMsg>>
          /\ runs[i].status = "returned"

\* C10 witness: a submit made while the model had no instance tree, its
\* error in the console
C10_Witness ==
    \E i \in 1..Len(runs) :
       /\ runs[i].outcome = "prepost"
       /\ Len(runs[i].sel) = 1
       /\ [level |-> "error", text |-> NullTreeError] \in console

\* the number of POSTs issued by the first n runs
RECURSIVE PostsIssued(_)
PostsIssued(n) ==
    IF n = 0 THEN 0 ELSE Len(runs[n].posts) + PostsIssued(n - 1)

\* C11: no retries: the POSTs issued are never more than the submit clicks
\* handled, and a run that has shown the failure notification has returned
\* having issued at most one POST
C11_NoRetries ==
    /\ PostsIssued(Len(runs)) <= Len(runs)
    /\ \A i \in 1..Len(runs) :
          FailureMsg \in {runs[i].alerts[k] : k \in 1..Len(runs[i].alerts)} =>
             /\ runs[i].status = "returned"
             /\ Len(runs[i].posts) <= 1

\* C11 witness: a submit failed on a non-ok response and the user submitted
\* again: two clicks, two POSTs
C11_Witness ==
    /\ Len(runs) = 2
    /\ runs[1].outcome = "notok" /\ runs[1].alerts = <<FailureMsg>>
    /\ runs[2].status = "awaitFetch"
    /\ PostsIssued(2) = 2

\* C12: the first click on the toolbar button creates the panel and shows
\* it, and every click flips its visibility: after n clicks the panel is
\* visible exactly when n is odd
C12_ClickTogglesPanel ==
    /\ toolbarClicks = 0 => (_panel = "null" /\ ~visible)
    /\ toolbarClicks >= 1 =>
          (_panel # "null" /\ (visible <=> toolbarClicks % 2 = 1))

\* C12 witness: the panel is shown again by the third click, with a submit
\* made and a selection change in between
C12_Witness ==
    /\ toolbarClicks = 3 /\ visible
    /\ Len(runs) >= 1 /\ selection = <<>>

\* C13: the submit control's 'disabled' attribute changes only when the
\* panel is constructed or the viewer's selection changes (so not on toolbar
\* clicks, submit clicks, POST completions, load() or unload()), and a step
\* of a submit (its click or a completion) also leaves the form values, the
\* selection and the panel's visibility unchanged
C13_EnabledStateFrame ==
    [][/\ disabled' # disabled =>
             (PanelConstructed \/ selection' # selection)
       /\ runs' # runs =>
             UNCHANGED <<disabled, form, selection, visible>>]_vars

\* C13 witness: after load()/unload(), a hide and show of the panel and a
\* submit answered ok, the control is still enabled and the form still holds
\* what was submitted
C13_Witness ==
    /\ ret = "true" /\ visible /\ ~disabled
    /\ Len(runs) = 1 /\ runs[1].outcome = "ok"
    /\ form = runs[1].frm /\ form # InitialForm
    /\ selection = runs[1].sel

\* C14: the POST of a run is the one built from the selection and the form
\* values at its click, whatever the selection and the form are now, and
\* the notification follows the answer alone
C14_PayloadIsSnapshot ==
    \A i \in 1..Len(runs) :
       (Len(runs[i].posts) >= 1 /\ Len(runs[i].sel) = 1) =>
          /\ runs[i].posts = <<ExpectedPost(runs[i])>>
          /\ runs[i].outcome = "ok" => runs[i].alerts = <<SuccessMsg>>
          /\ (runs[i].status = "returned"
                /\ runs[i].outcome \in {"notok", "rejected"}) =>
                runs[i].alerts = <<FailureMsg>>

\* C14 witness: a POST is in flight while the selection and the form both
\* differ from what they were at its click
C14_Witness ==
    \E i \in 1..Len(runs) :
       /\ runs[i].status = "awaitFetch"
       /\ runs[i].sel # selection /\ Len(selection) = 1
       /\ runs[i].frm # form
       /\ runs[i].posts = <<ExpectedPost(runs[i])>>

\* C15: no panel and no listener before the first click on the toolbar
\* button; from then on exactly one panel with one selection-changed
\* listener and one submit-click listener, whatever clicks, toolbar
\* creations, load() and unload() follow; every submit click starts exactly
\* one run of the submit handler
C15_OnePanelOneListenerEach ==
    /\ [](/\ toolbarClicks = 0 =>
               (_panel = "null" /\ selListeners = 0 /\ clickListeners = 0)
          /\ toolbarClicks >= 1 =>
               (_panel = PanelId /\ selListeners = 1 /\ clickListeners = 1))
    /\ [][Len(runs') # Len(runs) => Len(runs') = Len(runs) + 1]_vars

\* C15 witness: after three clicks, a repeated toolbar creation, load() and
\* unload(), one listener each and one run per submit click made
C15_Witness ==
    /\ toolbarClicks = 3
    /\ selListeners = 1 /\ clickListeners = 1
    /\ [level |-> "log", text |-> LoadedLine] \in console
    /\ [level |-> "log", text |-> UnloadedLine] \in console
    /\ Len(runs) = 2

====
